---- MODULE Spec2Model ----
(***************************************************************************)
(* The A-OK window-shade codec of esphome/components/remote_base:          *)
(* AOKData::checksum, AOKProtocol::encode and AOKProtocol::decode, with    *)
(* the transmit buffer and the receive cursor they work on.                *)
(*                                                                         *)
(* A raw timing stream is a sequence of integers: a mark (carrier on) is a *)
(* positive duration in microseconds, a space (carrier off) a negative     *)
(* one.  One pulse of the protocol is a mark followed by a space.          *)
(***************************************************************************)
EXTENDS Integers, Sequences, FiniteSets, TLC

VARIABLES
    pc,      \* "idle" | "sent" | "captured" | "decoded" | "hung"
    data,    \* the AOKData handed to encode
    dst,     \* RemoteTransmitData: [carrier_frequency, data]
    src,     \* RemoteReceiveData handed to decode: [data, index]
    from,    \* the raw entry of dst the capture starts at
    tamper,  \* what the channel did to the capture: [kind, pos]
    result   \* optional<AOKData> returned by decode, with its loop counters

vars == <<pc, data, dst, src, from, tamper, result>>

----------------------------------------------------------------------------
(* Program constants                                                       *)

AOK_PULSE_US == 300
AOK_PREAMBLE_LENGTH == 8
AOK_SYNC == <<17 * AOK_PULSE_US, 2 * AOK_PULSE_US>>
AOK_ONE  == <<2 * AOK_PULSE_US, 1 * AOK_PULSE_US>>
AOK_ZERO == <<1 * AOK_PULSE_US, 2 * AOK_PULSE_US>>
AOK_EOM  == <<2 * AOK_PULSE_US, 17 * AOK_PULSE_US>>
startcode == 163                \* 0xa3
Repetitions == 6
UINT16_RANGE == 65536           \* the scan counter is a uint16_t

\* The receiver's match tolerance in percent and the transmit buffer's
\* carrier before encode sets it (both owned by the host).
Tolerance == 25
DefaultCarrier == 38000

----------------------------------------------------------------------------
(* Integer helpers: C's fixed-width arithmetic                             *)

Pow2(n) == 2 ^ n

\* The element of a one-element set.  { F(x) : x \in {e} } computes e once
\* and names its value x, as a local variable of the code does.
Only(S) == CHOOSE x \in S : TRUE

\* v & (1 << i) != 0, for a two's-complement int v and 0 <= i <= 23.
BitSet(v, i) == (v % Pow2(i + 1)) >= Pow2(i)

\* Conversion of an int to int8_t.
ToInt8(v) == LET m == v % 256 IN IF m >= 128 THEN m - 256 ELSE m

Byte(v, k) == (v \div Pow2(8 * k)) % 256    \* v >> 8k & 0xff

----------------------------------------------------------------------------
(* AOKData::checksum                                                       *)

\* Mutants of checksum: the high byte of the id, or of the channel mask,
\* left out of the sum.
checksumNoDeviceHigh(d) ==
    ToInt8(ToInt8(Byte(d.device, 0) + Byte(d.device, 1)
                  + Byte(d.address, 0) + Byte(d.address, 1) + d.command) % 256)

checksumNoAddressHigh(d) ==
    ToInt8(ToInt8(Byte(d.device, 0) + Byte(d.device, 1) + Byte(d.device, 2)
                  + Byte(d.address, 0) + d.command) % 256)

checksum(d) ==
    LET c0 == ToInt8(Byte(d.device, 0) + Byte(d.device, 1) + Byte(d.device, 2)
                     + Byte(d.address, 0) + Byte(d.address, 1) + d.command)
    IN  ToInt8(c0 % 256)        \* checksum &= 0xff, stored back in an int8_t

\* AOKData::operator==
DataEq(a, b) ==
    a.device = b.device /\ a.address = b.address /\ a.command = b.command

----------------------------------------------------------------------------
(* RemoteTransmitData and the emitters                                     *)

item(mark, space) == <<mark, -space>>

one  == item(AOK_ONE[1], AOK_ONE[2])
zero == item(AOK_ZERO[1], AOK_ZERO[2])
sync == item(AOK_SYNC[1], AOK_SYNC[2])
eom  == item(AOK_EOM[1], AOK_EOM[2])

\* for (i = 0; i < AOK_PREAMBLE_LENGTH; i++) zero(dst);
preamble ==
    [j \in 1..(2 * AOK_PREAMBLE_LENGTH) |-> zero[2 - (j % 2)]]

\* for (i = n - 1; i >= 0; i--) if (v & (1 << i)) one(dst); else zero(dst);
EmitBits(v, n) ==
    [j \in 1..(2 * n) |->
        LET p == (j + 1) \div 2         \* the p-th pulse emits bit n - p
            e == 2 - (j % 2)            \* 1: its mark, 2: its space
        IN  IF BitSet(v, n - p) THEN one[e] ELSE zero[e]]

\* One pass of encode's outer loop.
EncodeFrame(d) ==
    sync \o EmitBits(startcode, 8) \o EmitBits(d.device, 24)
         \o EmitBits(d.address, 16) \o EmitBits(d.command, 8)
         \o EmitBits(checksum(d), 8) \o eom

RECURSIVE Repeat(_, _)
Repeat(s, n) == IF n = 0 THEN <<>> ELSE s \o Repeat(s, n - 1)

\* Mutant of EncodeData: the preamble sent whatever the flag says.
EncodeDataAlwaysPreamble(d) == preamble \o Repeat(EncodeFrame(d), Repetitions)

\* AOKProtocol::encode: what it appends to dst.
EncodeData(d) ==
    (IF d.preamble = TRUE THEN preamble ELSE <<>>)
        \o Repeat(EncodeFrame(d), Repetitions)

----------------------------------------------------------------------------
(* RemoteReceiveData: a raw timing vector with a forward cursor (0-based)  *)

Receive(raw) == [data |-> raw, index |-> 0]

size(s) == Len(s.data)
is_valid(s, offset) == s.index + offset < size(s)
peek(s, offset) == s.data[s.index + offset + 1]
lower_bound(length) == (length * (100 - Tolerance)) \div 100
upper_bound(length) == (length * (100 + Tolerance)) \div 100

peek_mark(s, length, offset) ==
    /\ is_valid(s, offset)
    /\ LET value == peek(s, offset)
       IN  value >= 0 /\ lower_bound(length) <= value /\ value <= upper_bound(length)

peek_space(s, length, offset) ==
    /\ is_valid(s, offset)
    /\ LET value == peek(s, offset)
       IN  value <= 0 /\ lower_bound(length) <= -value /\ -value <= upper_bound(length)

peek_item(s, mark, space) == peek_space(s, space, 1) /\ peek_mark(s, mark, 0)

advance(s, amount) == [s EXCEPT !.index = @ + amount]

----------------------------------------------------------------------------
(* AOKProtocol::expect_one / expect_zero / expect_sync                     *)
(* Each returns [ok, src]: the cursor moves by 2 only on a match.          *)

Expect(s, shape) ==
    IF ~peek_mark(s, shape[1], 0) THEN [ok |-> FALSE, src |-> s]
    ELSE IF ~peek_space(s, shape[2], 1) THEN [ok |-> FALSE, src |-> s]
    ELSE [ok |-> TRUE, src |-> advance(s, 2)]

expect_one(s)  == Expect(s, AOK_ONE)
expect_zero(s) == Expect(s, AOK_ZERO)
expect_sync(s) == Expect(s, AOK_SYNC)
expect_eom(s)  == Expect(s, AOK_EOM)

----------------------------------------------------------------------------
(* AOKProtocol::decode_bits                                                *)
(* The uint32_t accumulator is kept as two 16-bit halves [hi, lo], so that  *)
(* the failure value (uint32_t) -1 = 0xFFFFFFFF is a value of the model.   *)

Zero32 == [hi |-> 0, lo |-> 0]
MinusOne32 == [hi |-> 65535, lo |-> 65535]  \* return -1 from a uint32_t function
\* result <<= 1
Shl1(w) == [hi |-> (2 * w.hi + (w.lo \div 32768)) % 65536, lo |-> (2 * w.lo) % 65536]
\* result |= 0x01
Or1(w) == [w EXCEPT !.lo = IF @ % 2 = 1 THEN @ ELSE @ + 1]

\* The value of the low n bits of a word, n <= 16: the conversion to uint8_t
\* (n = 8) or uint16_t (n = 16).
LowBits(w, n) == w.lo % Pow2(n)

\* Mutant of BitStep: a pulse of no shape is skipped and read as a 0 bit.
BitStepLenient(st) ==
    IF expect_one(st.src).ok
    THEN [src |-> advance(st.src, 2), val |-> Or1(Shl1(st.val)), ret |-> FALSE]
    ELSE [src |-> advance(st.src, 2), val |-> Shl1(st.val), ret |-> FALSE]

\* One pass of the loop body, on the loop's state [src, val, ret]: ret is
\* TRUE once the function has returned (val is then the returned value).
BitStep(st) ==
    Only({
        IF o.ok THEN [src |-> o.src, val |-> Or1(Shl1(st.val)), ret |-> FALSE]
        ELSE Only({
            IF z.ok THEN [src |-> z.src, val |-> Shl1(st.val), ret |-> FALSE]
            ELSE [src |-> z.src, val |-> MinusOne32, ret |-> TRUE]
            : z \in {expect_zero(o.src)}})
        : o \in {expect_one(st.src)}})

\* n consecutive passes of for (i = 0; i < length; i++) from state st, as
\* the first n \div 2 passes followed by the rest.
RECURSIVE BitSteps(_, _)
BitSteps(st, n) ==
    IF st.ret \/ n = 0 THEN st
    ELSE IF n = 1 THEN BitStep(st)
    ELSE Only({BitSteps(h, n - (n \div 2)) : h \in {BitSteps(st, n \div 2)}})

\* [val, src]: the returned word and the cursor it leaves.
decode_bits(s, length) ==
    Only({[val |-> r.val, src |-> r.src]
          : r \in {BitSteps([src |-> s, val |-> Zero32, ret |-> FALSE], length)}})

\* The value of a word as a uint32_t.  decode_bits(_, 24) returns a word
\* below 2^24 or MinusOne32, and decode tests for MinusOne32 first.
U32(w) == w.hi * 65536 + w.lo

----------------------------------------------------------------------------
(* AOKProtocol::decode                                                     *)

\* The cursor stands on a SYNC pulse after n calls of advance().
SyncAt(s, n) == peek_item(advance(s, n), AOK_SYNC[1], AOK_SYNC[2])

\* for (uint16_t i = 0; i < src.size(); i++)
\*     if (src.peek_item(SYNC)) break; else src.advance();
\* The n-th pass looks at cursor n, and the passes go on while the uint16_t
\* counter n % 2^16 is below size(): up to n = size() when size() < 2^16, and
\* without end otherwise.  [done, steps, src]: steps counts the advance()s.
ScanForSync(s) ==
    IF \E n \in 0..(size(s) - 1) : SyncAt(s, n)
    THEN Only({[done |-> TRUE, steps |-> first, src |-> advance(s, first)]
               : first \in {CHOOSE n \in 0..(size(s) - 1) :
                                SyncAt(s, n) /\ \A m \in 0..(n - 1) : ~SyncAt(s, m)}})
    ELSE IF size(s) < UINT16_RANGE
    THEN [done |-> TRUE, steps |-> size(s), src |-> advance(s, size(s))]
    ELSE [done |-> FALSE, steps |-> 0, src |-> s]

Returned(v, s) == [kind |-> "return", value |-> v, src |-> s]

\* Mutants of VerifyChecksum: a mismatch goes on to the next repetition
\* instead of returning, or the checksum is read and not compared.
VerifyChecksumRetry(out, b5) ==
    LET cks == ToInt8(LowBits(b5.val, 8))
    IN  IF cks = -1 THEN Returned(<<>>, b5.src)
        ELSE IF cks = checksum(out) THEN Returned(<<out>>, b5.src)
        ELSE [kind |-> "continue", value |-> <<>>, src |-> b5.src]

VerifyChecksumSkip(out, b5) ==
    LET cks == ToInt8(LowBits(b5.val, 8))
    IN  IF cks = -1 THEN Returned(<<>>, b5.src) ELSE Returned(<<out>>, b5.src)

\* One pass of the body of while (1), up to the final if/else: every path
\* returns, {} as <<>> and a record out as <<out>>.  Each step below is the
\* code from one decode_bits call to the next.
VerifyChecksum(out, b5) ==
    LET cks == ToInt8(LowBits(b5.val, 8))           \* int8_t checksum
    IN  IF cks = -1 THEN Returned(<<>>, b5.src)
        ELSE IF cks = checksum(out) THEN Returned(<<out>>, b5.src)
        ELSE Returned(<<>>, b5.src)

ReadChecksum(out, b4) ==
    LET command == LowBits(b4.val, 8)               \* uint8_t out.command
    IN  IF command = -1 THEN Returned(<<>>, b4.src)
        ELSE Only({VerifyChecksum([out EXCEPT !.command = command], b5)
                   : b5 \in {decode_bits(b4.src, 8)}})

ReadCommand(out, b3) ==
    LET address == LowBits(b3.val, 16)              \* uint16_t out.address
    IN  IF address = -1 THEN Returned(<<>>, b3.src)
        ELSE Only({ReadChecksum([out EXCEPT !.address = address], b4)
                   : b4 \in {decode_bits(b3.src, 8)}})

ReadAddress(out, b2) ==
    IF b2.val = MinusOne32 THEN Returned(<<>>, b2.src)  \* uint32_t out.device
    ELSE Only({ReadCommand([out EXCEPT !.device = U32(b2.val)], b3)
               : b3 \in {decode_bits(b2.src, 16)}})

\* Mutant of ReadDevice: the start code is read and not compared.
ReadDeviceAnyStart(out, b1) ==
    Only({ReadAddress(out, b2) : b2 \in {decode_bits(b1.src, 24)}})

ReadDevice(out, b1) ==
    LET start == LowBits(b1.val, 8)                 \* uint8_t start
    IN  IF start = -1 \/ start # 163 THEN Returned(<<>>, b1.src)
        ELSE Only({ReadAddress(out, b2) : b2 \in {decode_bits(b1.src, 24)}})

ReadStart(out, sy) ==
    IF ~sy.ok THEN Returned(<<>>, sy.src)
    ELSE Only({ReadDevice(out, b1) : b1 \in {decode_bits(sy.src, 8)}})

FrameBody(s, out) == Only({ReadStart(out, sy) : sy \in {expect_sync(s)}})

\* while (1) { body; expect_eom(src); }
RECURSIVE FrameLoop(_, _, _)
FrameLoop(s, out, iter) ==
    Only({
        IF b.kind = "return"
        THEN [value |-> b.value, frames |-> iter, index |-> b.src.index]
        ELSE FrameLoop(Only({expect_eom(b.src)}).src, out, iter + 1)
        : b \in {FrameBody(s, out)}})

\* decode(src): [done, value, scan, frames, index].  done is FALSE when the
\* call never returns.
decode(s) ==
    LET out == [device |-> 0, address |-> 0, command |-> 0, preamble |-> TRUE]
        After(sc) ==
            IF sc.done
            THEN Only({[done |-> TRUE, value |-> r.value, scan |-> sc.steps,
                        frames |-> r.frames, index |-> r.index]
                       : r \in {FrameLoop(sc.src, out, 1)}})
            ELSE [done |-> FALSE, value |-> <<>>, scan |-> 0, frames |-> 0,
                  index |-> 0]
    IN  Only({After(sc) : sc \in {ScanForSync(s)}})

----------------------------------------------------------------------------
(* Inputs                                                                  *)

MaxBack == 2            \* a capture starts up to this many entries early
MaxNoiseLen == 6        \* raw entries of a noise capture
LongLen == 65536        \* raw entries of the long noise capture

\* 0x505DE9, 0xFFFFFF, and 0x1505DE9 (25 bits)
Devices == {5266921, 16777215, 22044137}
Addresses == {256, 65535}                   \* 0x0100, 0xFFFF
Commands == {11, 104}                       \* 0x0B (UP), 0x68
\* The documented frames: UP, DOWN (0x43) and STOP (0x23) of the remote
\* 0x505DE9, and the same with 0x5057E9.
Documented == [device : {5266921, 5265385}, address : {256},
               command : {11, 67, 35}, preamble : {FALSE}]
Records == [device : Devices, address : Addresses, command : Commands,
            preamble : BOOLEAN] \cup Documented

\* Durations a noisy capture is made of, and pulses that are no shape.
NoiseDurations == {100, 300, 600, 5100}
GarbagePulses == {<<1000, -1000>>, <<300, -300>>}

\* Percentages by which the receiver may see the two durations of a pulse
\* off their nominal values and still match the shape.
Skews == {80, 120}

\* Raw captures of n entries: marks and spaces alternate, mark first.
NoiseStreams(n) ==
    {[j \in 1..n |-> IF j % 2 = 1 THEN f[j] ELSE -f[j]] :
        f \in [1..n -> NoiseDurations]}

LongNoise ==
    SubSeq([j \in 1..LongLen |-> IF j % 2 = 1 THEN 1000 ELSE -1000], 1, LongLen)

\* 0-based positions of the SYNC pulses of a raw stream.
SyncStarts(raw) == {n \in 0..(Len(raw) - 1) : SyncAt(Receive(raw), n)}

\* Where a capture of a transmission may start: at its first entry, at a
\* SYNC, up to MaxBack entries before one, or right behind one.
CaptureOffsets(raw) ==
    LET near(n) == {n - b : b \in 0..MaxBack} \cup {n + 2}
    IN  ({0} \cup UNION {near(n) : n \in SyncStarts(raw)}) \cap (0..(Len(raw) - 1))

NoTamper == [kind |-> "none", pos |-> 0]

----------------------------------------------------------------------------
(* The state machine                                                       *)

Init ==
    /\ pc = "idle"
    /\ data = <<>>
    /\ dst = [carrier_frequency |-> DefaultCarrier, data |-> <<>>]
    /\ src = Receive(<<>>)
    /\ from = 0
    /\ tamper = NoTamper
    /\ result = <<>>

\* AOKAction::encode -> AOKProtocol().encode(dst, R)
Encode(R) ==
    /\ pc = "idle"
    /\ data' = <<R>>
    /\ dst' = [carrier_frequency |-> 0, data |-> dst.data \o EncodeData(R)]
    /\ pc' = "sent"
    /\ UNCHANGED <<src, from, tamper, result>>

\* The receiver hands over what it captured of the transmission from raw
\* entry o on.
Capture(o) ==
    /\ pc = "sent"
    /\ src' = Receive(SubSeq(dst.data, o + 1, Len(dst.data)))
    /\ from' = o
    /\ pc' = "captured"
    /\ UNCHANGED <<data, dst, tamper, result>>

\* The receiver hands over a capture of noise.
CaptureNoise ==
    /\ pc = "idle"
    /\ \E n \in 0..MaxNoiseLen : \E raw \in NoiseStreams(n) : src' = Receive(raw)
    /\ pc' = "captured"
    /\ UNCHANGED <<data, dst, from, tamper, result>>

CaptureLongNoise ==
    /\ pc = "idle"
    /\ src' = Receive(LongNoise)
    /\ pc' = "captured"
    /\ UNCHANGED <<data, dst, from, tamper, result>>

\* 0-based raw position of the first SYNC of the capture.
Lock(s) ==
    CHOOSE n \in 0..(size(s) - 1) :
        SyncAt(Receive(s.data), n) /\ \A m \in 0..(n - 1) : ~SyncAt(Receive(s.data), m)
\* 1-based raw position of the mark of bit j (1..64) behind that SYNC.
BitAt(s, j) == Lock(s) + 2 * j + 1

CanTamper ==
    /\ pc = "captured"
    /\ tamper = NoTamper
    /\ data # <<>>
    /\ from = 0

\* Interference turns the pulse of bit j into the other bit.
FlipBit(j) ==
    /\ CanTamper
    /\ LET at == BitAt(src, j)
           to == IF src.data[at] = one[1] THEN zero ELSE one
       IN  src' = [src EXCEPT !.data[at] = to[1], !.data[at + 1] = to[2]]
    /\ tamper' = [kind |-> "flip", pos |-> j]
    /\ UNCHANGED <<pc, data, dst, from, result>>

\* Interference turns the pulse of bit j into a pulse of no shape.
Garble(j, g) ==
    /\ CanTamper
    /\ LET at == BitAt(src, j)
       IN  src' = [src EXCEPT !.data[at] = g[1], !.data[at + 1] = g[2]]
    /\ tamper' = [kind |-> "garble", pos |-> j]
    /\ UNCHANGED <<pc, data, dst, from, result>>

\* Interference stretches or shrinks the pulse of bit j to k percent.
Jitter(j, k) ==
    /\ CanTamper
    /\ LET at == BitAt(src, j)
       IN  src' = [src EXCEPT !.data[at] = (@ * k) \div 100,
                              !.data[at + 1] = -(((-@) * k) \div 100)]
    /\ tamper' = [kind |-> "jitter", pos |-> j]
    /\ UNCHANGED <<pc, data, dst, from, result>>

\* The capture ends before bit j (half = 0) or behind its mark (half = 1);
\* j = 65 is the END pulse.
Truncate(j, half) ==
    /\ CanTamper
    /\ src' = [src EXCEPT !.data = SubSeq(@, 1, BitAt(src, j) - 1 + half)]
    /\ tamper' = [kind |-> "truncate", pos |-> j]
    /\ UNCHANGED <<pc, data, dst, from, result>>

\* AOKProtocol::decode(src)
Decode ==
    /\ pc = "captured"
    /\ \E r \in {decode(src)} :
           IF r.done
           THEN result' = <<r>> /\ pc' = "decoded"
           ELSE result' = result /\ pc' = "hung"
    /\ UNCHANGED <<data, dst, src, from, tamper>>

Next ==
    \/ \E R \in Records : Encode(R)
    \/ pc = "sent" /\ \E o \in CaptureOffsets(dst.data) : Capture(o)
    \/ CaptureNoise
    \/ CaptureLongNoise
    \/ \E j \in 1..64 : FlipBit(j)
    \/ \E j \in 1..64 : \E g \in GarbagePulses : Garble(j, g)
    \/ \E j \in 1..64 : \E k \in Skews : Jitter(j, k)
    \/ \E j \in 1..65 : \E half \in {0, 1} : Truncate(j, half)
    \/ Decode

Spec == Init /\ [][Next]_vars

----------------------------------------------------------------------------
(* Vocabulary of the properties                                            *)

Sent == data # <<>>
Untouched == tamper = NoTamper
HasReturned == pc = "decoded"
Record == result[1].value               \* <<>> or <<out>>
Failed == HasReturned /\ Record = <<>>

Valid(R) == R.device < Pow2(24) /\ R.address < Pow2(16) /\ R.command < Pow2(8)
Mask24(R) == [R EXCEPT !.device = @ % Pow2(24)]

\* Raw entries of one framed unit: SYNC, 64 bits, END.
FrameRaw == 2 * (1 + 64 + 1)

\* The sum modulo 256 of the low, mid and high byte of transmitter_id, the
\* low and high byte of channel_mask, and command.
ByteSum(R) ==
    ((R.device % 256) + ((R.device \div 256) % 256) + ((R.device \div 65536) % 256)
     + (R.address % 256) + ((R.address \div 256) % 256) + R.command) % 256

\* Bit b (1..64, in wire order) of the message of record R.
WireBit(R, b) ==
    IF b <= 8 THEN (163 \div Pow2(8 - b)) % 2
    ELSE IF b <= 32 THEN ((R.device % Pow2(24)) \div Pow2(32 - b)) % 2
    ELSE IF b <= 48 THEN (R.address \div Pow2(48 - b)) % 2
    ELSE IF b <= 56 THEN (R.command \div Pow2(56 - b)) % 2
    ELSE (ByteSum(R) \div Pow2(64 - b)) % 2

Shape(sh) == <<sh[1], -sh[2]>>
PulseAt(raw, p) == <<raw[2 * p - 1], raw[2 * p]>>

\* The value of the n bit pulses of raw whose first mark is raw[at], read
\* most significant bit first: a pulse that matches ONE is 1.
RECURSIVE FieldValue(_, _, _)
FieldValue(raw, at, n) ==
    IF n = 0 THEN 0
    ELSE 2 * FieldValue(raw, at, n - 1)
         + (IF peek_item([data |-> raw, index |-> at + 2 * n - 3],
                         AOK_ONE[1], AOK_ONE[2])
            THEN 1 ELSE 0)

HasSync(s) == \E n \in 0..(size(s) - 1) : SyncAt(Receive(s.data), n)

\* Bit j behind the SYNC at lock is missing or matches neither ONE nor ZERO.
BadBit(s, lock, j) ==
    LET c == [data |-> s.data, index |-> lock + 2 * j]
    IN  ~expect_one(c).ok /\ ~expect_zero(c).ok

\* No pulse of the stream matches SYNC, ONE, ZERO or END.
NoShape(raw) ==
    \A n \in 0..(Len(raw) - 1) : \A sh \in {AOK_SYNC, AOK_ONE, AOK_ZERO, AOK_EOM} :
        ~peek_item([data |-> raw, index |-> n], sh[1], sh[2])

----------------------------------------------------------------------------
(* C1: round trip.  Decoding the whole pulse sequence encode produced for  *)
(* a record with transmitter_id < 2^24, channel_mask < 2^16 and            *)
(* command < 2^8 returns a record with the same three fields.              *)
C1_RoundTrip ==
    (pc \in {"decoded", "hung"} /\ Sent /\ Untouched /\ from = 0 /\ Valid(data[1]))
        => (HasReturned /\ Record # <<>> /\ DataEq(Record[1], data[1]))

----------------------------------------------------------------------------
(* C2: one decode call yields at most one record and examines only the     *)
(* framed unit behind the first SYNC.  When a bit pulse of that unit is    *)
(* flipped or turned into no shape (so that a bit does not match, the      *)
(* start code is not 0xA3 or the checksum differs), decode returns failure *)
(* from the first pass of its loop with the cursor still inside that unit, *)
(* although the five repetitions behind it are intact.                     *)
LaterIntact ==
    LET behind == Lock(src) + FrameRaw
    IN  /\ Len(src.data) = Len(dst.data)
        /\ SubSeq(src.data, behind + 1, Len(src.data))
               = SubSeq(dst.data, behind + 1, Len(dst.data))
        /\ SyncAt(Receive(src.data), behind)

C2_NoRetry ==
    /\ HasReturned => Len(Record) <= 1 /\ result[1].frames = 1
    /\ (HasReturned /\ tamper.kind \in {"flip", "garble"})
           => /\ Record = <<>>
              /\ result[1].index <= Lock(src) + 2 + 2 * 64

C2_Witness ==
    /\ Failed /\ tamper.kind = "flip" /\ tamper.pos = 64
    /\ data[1].preamble /\ checksum(data[1]) # -1
    /\ LaterIntact

----------------------------------------------------------------------------
(* C3: repetition idempotence.  Decoding the part of encode(R) that starts *)
(* at, shortly before, or right behind a SYNC, with at least one whole     *)
(* repetition left, returns a record equal to R.                           *)
C3_Idempotent ==
    (pc \in {"decoded", "hung"} /\ Sent /\ Untouched /\ Valid(data[1])
        /\ Len(src.data) >= FrameRaw)
        => (HasReturned /\ Record # <<>> /\ DataEq(Record[1], data[1]))

----------------------------------------------------------------------------
(* C4: tamper rejection.  With one of the 8 checksum bit pulses (bits 57   *)
(* to 64) of the unit decode locks onto replaced by the other bit's pulse, *)
(* decode returns failure.                                                 *)
C4_TamperRejected ==
    (HasReturned /\ tamper.kind = "flip" /\ tamper.pos \in 57..64) => Record = <<>>

C4_Witness ==
    /\ Failed /\ tamper.kind = "flip" /\ tamper.pos = 57
    /\ FieldValue(src.data, BitAt(src, 57), 8) # ByteSum(data[1])
    /\ FieldValue(dst.data, BitAt(src, 57), 8) = ByteSum(data[1])

----------------------------------------------------------------------------
(* C5: garbage rejection.  On a stream of any length in which no pulse     *)
(* matches SYNC, ONE, ZERO or END, decode returns, with failure, after at  *)
(* most size() steps of the scan and one pass of the frame loop.           *)
C5_GarbageRejected ==
    (pc \in {"decoded", "hung"} /\ NoShape(src.data))
        => /\ HasReturned
           /\ Record = <<>>
           /\ result[1].scan <= size(src)
           /\ result[1].frames <= 1

----------------------------------------------------------------------------
(* C6: encoder layout.  encode appends 8 ZERO pulses when send_preamble is *)
(* true and none otherwise, then 6 times SYNC, the 64 bits of the message  *)
(* (0xA3, low 24 bits of transmitter_id, channel_mask, command, checksum;  *)
(* most significant bit first, 1 as ONE and 0 as ZERO) and END: 396 pulses *)
(* without preamble, 404 with it.                                          *)
C6_Layout ==
    pc = "sent" =>
        LET R == data[1]
            raw == dst.data
            pre == IF R.preamble THEN 8 ELSE 0
        IN  /\ Len(raw) = 2 * (IF R.preamble THEN 404 ELSE 396)
            /\ \A p \in 1..pre : PulseAt(raw, p) = Shape(AOK_ZERO)
            /\ \A k \in 0..5 :
                /\ PulseAt(raw, pre + 66 * k + 1) = Shape(AOK_SYNC)
                /\ \A b \in 1..64 :
                       PulseAt(raw, pre + 66 * k + 1 + b)
                           = IF WireBit(R, b) = 1 THEN Shape(AOK_ONE) ELSE Shape(AOK_ZERO)
                /\ PulseAt(raw, pre + 66 * k + 66) = Shape(AOK_EOM)

C6_Witness ==
    /\ pc = "sent" /\ data[1].preamble /\ Len(dst.data) = 808
    /\ PulseAt(dst.data, 8) = Shape(AOK_ZERO) /\ PulseAt(dst.data, 9) = Shape(AOK_SYNC)

----------------------------------------------------------------------------
----------------------------------------------------------------------------
(* C8: the documented frames.  As stated: checksum(0x5057E9, 0x0100, 0x0B) *)
(* is 0xA2, and with command 0x43 it is 0xDA, with command 0x23 0xBA.      *)
DocumentedSums == (11 :> 162) @@ (67 :> 218) @@ (35 :> 186)

C8_Original ==
    (Sent /\ data[1].device = 5265385 /\ data[1].address = 256
        /\ data[1].command \in DOMAIN DocumentedSums)
        => checksum(data[1]) % 256 = DocumentedSums[data[1].command]

(* C8, amended: the transmitter_id of the documented frames, bits          *)
(* 010100000101110111101001, is 0x505DE9; checksum(0x505DE9, 0x0100, 0x0B) *)
(* is 0xA2, with command 0x43 it is 0xDA, with command 0x23 0xBA.          *)
C8_Vectors ==
    (Sent /\ data[1].device = 5266921 /\ data[1].address = 256
        /\ data[1].command \in DOMAIN DocumentedSums)
        => /\ checksum(data[1]) % 256 = DocumentedSums[data[1].command]
           /\ FieldValue(dst.data, Len(dst.data) - FrameRaw + 2 * 57 + 1, 8)
                  = DocumentedSums[data[1].command]

C8_Witness ==
    /\ pc = "sent"
    /\ DataEq(data[1], [device |-> 5266921, address |-> 256, command |-> 67])
    /\ FieldValue(dst.data, Len(dst.data) - FrameRaw + 2 * 9 + 1, 24) = 5266921
    /\ checksum(data[1]) = 218 - 256

----------------------------------------------------------------------------
(* C9: out-of-range truncation.  For a transmitter_id above 24 bits encode *)
(* emits what it emits for the id reduced to its low 24 bits, id field and *)
(* checksum field alike, and the transmission decodes to the masked record.*)
C9_Truncation ==
    (Sent /\ data[1].device >= Pow2(24)) =>
        /\ pc = "sent" => dst.data = EncodeData(Mask24(data[1]))
        /\ (pc \in {"decoded", "hung"} /\ Untouched /\ from = 0) =>
               (HasReturned /\ Record # <<>> /\ DataEq(Record[1], Mask24(data[1])))

----------------------------------------------------------------------------
(* C10: structural mismatch.  If one of the 64 bit positions behind the    *)
(* SYNC decode locks onto holds a pulse that matches neither ONE nor ZERO, *)
(* or the stream ends before it, decode returns failure.                   *)
C10_Mismatch ==
    (HasReturned /\ HasSync(src)
        /\ \E lock \in {Lock(src)} : \E j \in 1..64 : BadBit(src, lock, j))
        => Record = <<>>

C10_Witness ==
    /\ Failed /\ tamper.kind = "garble" /\ tamper.pos \in 33..48
    /\ BadBit(src, Lock(src), tamper.pos)
    /\ \A j \in 1..64 : j # tamper.pos => ~BadBit(src, Lock(src), j)

----------------------------------------------------------------------------
(* C11: decode soundness.  Whenever decode returns a record, the stream    *)
(* holds a SYNC, the 64 pulses behind the first SYNC each match ONE or     *)
(* ZERO, the first 8 read most significant bit first give 0xA3, the        *)
(* record's transmitter_id, channel_mask and command are the next 24, 16   *)
(* and 8 bits, the last 8 bits are the checksum of those three fields, and *)
(* the record's send_preamble is true.  A capture that ends behind bit 64, *)
(* without the END pulse, still decodes to the record sent.                *)
C11_Sound ==
    /\ (HasReturned /\ Record # <<>>) =>
           /\ HasSync(src)
           /\ \E lock \in {Lock(src)} :
                  /\ \A j \in 1..64 : ~BadBit(src, lock, j)
                  /\ FieldValue(src.data, lock + 3, 8) = startcode
                  /\ Record[1].device = FieldValue(src.data, lock + 19, 24)
                  /\ Record[1].address = FieldValue(src.data, lock + 67, 16)
                  /\ Record[1].command = FieldValue(src.data, lock + 99, 8)
                  /\ ByteSum(Record[1]) = FieldValue(src.data, lock + 115, 8)
           /\ Record[1].preamble
    /\ (HasReturned /\ tamper.kind = "truncate" /\ tamper.pos = 65
           /\ checksum(data[1]) # -1)
           => (Record # <<>> /\ DataEq(Record[1], Mask24(data[1])))

C11_Witness ==
    /\ HasReturned /\ Record # <<>>
    /\ tamper.kind = "truncate" /\ tamper.pos = 65
    /\ Len(src.data) = Lock(src) + 2 + 2 * 64
    /\ ~data[1].preamble /\ Record[1].preamble
    /\ Record[1].device = 5266921 /\ Record[1].address = 256
    /\ Record[1].command = 35

====
